---- MODULE Spec2Model ----
(***************************************************************************)
(* A model of website/src/pages/home_page_example.py: main() builds a      *)
(* PlaywrightCrawler, registers request_handler as the default handler,    *)
(* runs the crawl from one start URL, exports the dataset and reads it     *)
(* back.  main() and request_handler are translated from the file.  The    *)
(* crawler itself (request queue, scheduling of handler invocations, the   *)
(* request cap, dataset, export_data, get_data) is not part of the file;   *)
(* it is modelled from the specification's description of it.              *)
(*                                                                         *)
(* A coroutine is modelled by its position: every `await` is a suspension  *)
(* point, the code between two awaits is one atomic step.                  *)
(***************************************************************************)
EXTENDS Integers, Sequences, FiniteSets, TLC

\* ------------------------------------------------------------------ bounds

\* Pages of the modelled web site are numbered 0..MaxPage.
MaxPage == 5
\* Handler invocations the crawler keeps in flight at once.
MaxConcurrency == 2

\* ------------------------------------------------------ the web (external)

Min(a, b) == IF a < b THEN a ELSE b

\* A URL of the site: the origin and the number of the page under it.
Url(i) == <<"https://crawlee.dev", i>>

Urls == { Url(i) : i \in 0..MaxPage }

\* crawler.run(['https://crawlee.dev'])
StartUrls == << Url(0) >>

\* SeqToSet
Range(s) == { s[k] : k \in 1..Len(s) }

\* [:100]
ContentLimit == 100

\* The links of a page, in document order: back to the start page and on to
\* the next two pages.
PageLinks(u) ==
    LET i == u[2]
        fwd == IF i + 2 <= MaxPage THEN << Url(i + 1), Url(i + 2) >>
               ELSE IF i + 1 <= MaxPage THEN << Url(i + 1) >>
               ELSE << >>
    IN  << Url(0) >> \o fwd

\* What page.title() returns for the page.
PageTitle(u) == << "title", u[2] >>

\* What page.content() returns for the page: a string whose length is just
\* below, at or above the truncation limit, depending on the page.
PageContent(u) == [ k \in 1..(ContentLimit - 2 + u[2]) |-> (k + u[2]) % 10 ]

\* --------------------------------------------------------------- the state

VARIABLES
    mainPc,        \* position of main()
    config,        \* the crawler's options, as given to PlaywrightCrawler(...)
    router,        \* the router's default handler ("none" until registered)
    crawl,         \* crawler.run: "idle", "running" or "finished"
    queue,         \* the request queue: URLs waiting to be processed, in order
    origin,        \* every URL ever added to the queue -> who added it
    inv,           \* per request: the request_handler invocation for it
    dataset,       \* the default dataset: the records pushed, in order
    handlerCalls,  \* request_handler invocations started so far
    files,         \* the file system: path -> what was written there
    data,          \* what `data = await crawler.get_data()` holds: << >> or <<items>>
    logged,        \* what crawler.log.info was given at line 37
    reachable      \* the start URLs that are reachable: their pages' operations do not raise

vars == << mainPc, config, router, crawl, queue, origin, inv, dataset,
           handlerCalls, files, data, logged, reachable >>

\* ------------------------------------------------- main(): lines 4 to 37

\* Mutant of CrawlerOptions: the request cap given as 6.
CrawlerOptionsCapSix ==
    [ max_requests_per_crawl |-> 6, headless |-> FALSE, browser_type |-> "firefox" ]

\* PlaywrightCrawler(max_requests_per_crawl=5, headless=False, browser_type='firefox')
CrawlerOptions ==
    [ max_requests_per_crawl |-> 5, headless |-> FALSE, browser_type |-> "firefox" ]

\* Mutant of ExportPath: the file name misspelt.
ExportPathTypo == "result.json"

\* await crawler.export_data('results.json')
ExportPath == "results.json"

\* Mutant of MainAfter: the export and the read come before the run.
MainAfterExportFirst(pc) ==
    CASE pc = "register"    -> "export"
      [] pc = "export"      -> "in_export"
      [] pc = "in_export"   -> "get_data"
      [] pc = "get_data"    -> "in_get_data"
      [] pc = "in_get_data" -> "log"
      [] pc = "log"         -> "run"
      [] pc = "run"         -> "in_run"
      [] pc = "in_run"      -> "done"
      [] OTHER              -> "done"

\* The statements of main() in program order.  A call that is awaited is two
\* positions: the call, and main() suspended in it ("in_...").
MainAfter(pc) ==
    CASE pc = "register"    -> "run"
      [] pc = "run"         -> "in_run"
      [] pc = "in_run"      -> "export"
      [] pc = "export"      -> "in_export"
      [] pc = "in_export"   -> "get_data"
      [] pc = "get_data"    -> "in_get_data"
      [] pc = "in_get_data" -> "log"
      [] pc = "log"         -> "done"
      [] OTHER              -> "done"

\* ------------------------------------- request_handler: lines 13 to 27

\* Mutant of HandlerAfter: push_data is awaited a second time.
HandlerAfterPushAgain(pc) ==
    CASE pc = "enqueue_links" -> "title"
      [] pc = "title"         -> "content"
      [] pc = "content"       -> "push_data"
      [] pc = "push_data"     -> "push_data"
      [] OTHER                -> "returned"

\* Mutant of HandlerAfter: the handler returns without calling push_data.
HandlerAfterNoPush(pc) ==
    CASE pc = "enqueue_links" -> "title"
      [] pc = "title"         -> "content"
      [] pc = "content"       -> "returned"
      [] OTHER                -> "returned"

\* Mutant of HandlerAfter: push_data is called before the content is read.
HandlerAfterPushEarly(pc) ==
    CASE pc = "enqueue_links" -> "title"
      [] pc = "title"         -> "push_data"
      [] pc = "push_data"     -> "content"
      [] pc = "content"       -> "returned"
      [] OTHER                -> "returned"

\* The awaited operations of one invocation, in program order.
HandlerAfter(pc) ==
    CASE pc = "enqueue_links" -> "title"
      [] pc = "title"         -> "content"
      [] pc = "content"       -> "push_data"
      [] pc = "push_data"     -> "returned"
      [] OTHER                -> "returned"

\* Mutant of OnFailure: the exception is swallowed and the handler goes on.
OnFailureSwallow(pc) ==
    CASE pc = "enqueue_links" -> "title"
      [] pc = "title"         -> "content"
      [] OTHER                -> "push_data"

\* An awaited operation raises: the handler has no try/except, so the
\* exception leaves the invocation.
OnFailure(pc) == "raised"

\* Mutant of Slice: the slice keeps one character too many.
SliceOffByOne(s) == SubSeq(s, 1, Min(ContentLimit + 1, Len(s)))

\* (await context.page.content())[:100]
Slice(s) == SubSeq(s, 1, Min(ContentLimit, Len(s)))

\* Mutant of BuildData: the url field is the last link of the page, not the
\* URL of the request.
BuildDataLinkUrl(u, title, content) ==
    [ url |-> PageLinks(u)[Len(PageLinks(u))], title |-> title, content |-> content ]

\* data = {'url': context.request.url, 'title': ..., 'content': ...}
BuildData(u, title, content) ==
    [ url |-> u, title |-> title, content |-> content ]

\* The invocation before the handler is called for the request.
Idle ==
    [ pc |-> "idle", title |-> << >>, content |-> << >>, ops |-> << >>,
      failed |-> "none", pushed |-> << >> ]

\* Entry of request_handler: line 14 logs, then line 17 awaits enqueue_links.
HandlerEntry ==
    [ pc |-> "enqueue_links", title |-> << >>, content |-> << >>,
      ops |-> << "log.info" >>, failed |-> "none", pushed |-> << >> ]

\* Invocations that have started and neither returned nor raised.
Active == { u \in Urls : inv[u].pc \notin { "idle", "returned", "raised" } }

\* ------------------------------------------ the crawler (from the spec)

RunOrigin == << "crawler.run", 0 >>

Seen == DOMAIN origin

\* The links of the page not yet known to the request queue, in page order.
NewLinks(u) == SelectSeq(PageLinks(u), LAMBDA v : v \notin Seen)

\* export_data writes the whole dataset, as JSON for a .json path.
ExportData(ds) == [ format |-> "json", items |-> ds ]

\* The request cap is reached.
CapReached == handlerCalls >= config.max_requests_per_crawl

\* ----------------------------------------------------------------- Init

\* The state after PlaywrightCrawler(...) returned (lines 5 to 9).
Init ==
    /\ mainPc = "register"
    /\ config = CrawlerOptions
    /\ router = "none"
    /\ crawl = "idle"
    /\ queue = << >>
    /\ origin = [ u \in {} |-> RunOrigin ]
    /\ inv = [ u \in Urls |-> Idle ]
    /\ dataset = << >>
    /\ handlerCalls = 0
    /\ files = [ p \in {} |-> ExportData(<< >>) ]
    /\ data = << >>
    /\ logged = << >>
    /\ reachable \in SUBSET Range(StartUrls)

\* -------------------------------------------------------------- main()

\* Mutant of MainRegister: registering the handler switches the browser to
\* headless.
MainRegisterSetsHeadless ==
    /\ mainPc = "register"
    /\ router' = "request_handler"
    /\ config' = [ config EXCEPT !.headless = TRUE ]
    /\ mainPc' = "run"
    /\ UNCHANGED << crawl, queue, origin, inv, dataset, handlerCalls,
                    files, data, logged, reachable >>

\* @crawler.router.default_handler (line 12)
MainRegister ==
    /\ mainPc = "register"
    /\ router' = "request_handler"
    /\ mainPc' = MainAfter(mainPc)
    /\ UNCHANGED << config, crawl, queue, origin, inv, dataset, handlerCalls,
                    files, data, logged, reachable >>

\* await crawler.run(['https://crawlee.dev']) (line 30): the call.  The start
\* URLs go to the request queue and the crawl begins.
MainRun ==
    /\ mainPc = "run"
    /\ crawl' = "running"
    /\ queue' = queue \o SelectSeq(StartUrls, LAMBDA v : v \notin Seen)
    /\ origin' = [ v \in Seen \cup Range(StartUrls) |->
                     IF v \in Seen THEN origin[v] ELSE RunOrigin ]
    /\ mainPc' = MainAfter(mainPc)
    /\ UNCHANGED << config, router, inv, dataset, handlerCalls, files, data,
                    logged, reachable >>

\* crawler.run returns: no invocation is in flight and either the queue is
\* empty or the request cap is reached.
RunReturn ==
    /\ mainPc = "in_run"
    /\ crawl = "running"
    /\ Active = {}
    /\ queue = << >> \/ CapReached
    /\ crawl' = "finished"
    /\ mainPc' = MainAfter(mainPc)
    /\ UNCHANGED << config, router, queue, origin, inv, dataset, handlerCalls,
                    files, data, logged, reachable >>

\* await crawler.export_data('results.json') (line 33): the call.
MainExport ==
    /\ mainPc = "export"
    /\ mainPc' = MainAfter(mainPc)
    /\ UNCHANGED << config, router, crawl, queue, origin, inv, dataset,
                    handlerCalls, files, data, logged, reachable >>

\* export_data returns: the file holds the dataset.
ExportReturn ==
    /\ mainPc = "in_export"
    /\ files' = [ p \in DOMAIN files \cup { ExportPath } |->
                    IF p = ExportPath THEN ExportData(dataset) ELSE files[p] ]
    /\ mainPc' = MainAfter(mainPc)
    /\ UNCHANGED << config, router, crawl, queue, origin, inv, dataset,
                    handlerCalls, data, logged, reachable >>

\* data = await crawler.get_data() (line 36): the call.
MainGetData ==
    /\ mainPc = "get_data"
    /\ mainPc' = MainAfter(mainPc)
    /\ UNCHANGED << config, router, crawl, queue, origin, inv, dataset,
                    handlerCalls, files, data, logged, reachable >>

\* get_data returns the items of the dataset.
GetDataReturn ==
    /\ mainPc = "in_get_data"
    /\ data' = << dataset >>
    /\ mainPc' = MainAfter(mainPc)
    /\ UNCHANGED << config, router, crawl, queue, origin, inv, dataset,
                    handlerCalls, files, logged, reachable >>

\* crawler.log.info(f'Extracted data: {data.items}') (line 37); main() returns.
MainLog ==
    /\ mainPc = "log"
    /\ logged' = data
    /\ mainPc' = MainAfter(mainPc)
    /\ UNCHANGED << config, router, crawl, queue, origin, inv, dataset,
                    handlerCalls, files, data, reachable >>

\* ------------------------------------------------- the crawl's tasks

\* The crawler takes the next request from the queue and calls the default
\* handler for it, unless the cap or the concurrency limit is reached.
StartTask(u) ==
    /\ crawl = "running"
    /\ router = "request_handler"
    /\ queue # << >>
    /\ u = Head(queue)
    /\ inv[u].pc = "idle"
    /\ ~CapReached
    /\ Cardinality(Active) < MaxConcurrency
    /\ queue' = Tail(queue)
    /\ handlerCalls' = handlerCalls + 1
    /\ inv' = [ inv EXCEPT ![u] = HandlerEntry ]
    /\ UNCHANGED << mainPc, config, router, crawl, origin, dataset, files,
                    data, logged, reachable >>

\* await context.enqueue_links() (line 17) completes: the page's links that
\* the queue has not seen are appended to it.
HandlerEnqueueLinks(u) ==
    /\ inv[u].pc = "enqueue_links"
    /\ queue' = queue \o NewLinks(u)
    /\ origin' = [ v \in Seen \cup Range(PageLinks(u)) |->
                     IF v \in Seen THEN origin[v] ELSE u ]
    /\ inv' = [ inv EXCEPT ![u].pc = HandlerAfter(@),
                           ![u].ops = Append(@, "enqueue_links") ]
    /\ UNCHANGED << mainPc, config, router, crawl, dataset, handlerCalls,
                    files, data, logged, reachable >>

\* await context.page.title() (line 22) completes.
HandlerTitle(u) ==
    /\ inv[u].pc = "title"
    /\ inv' = [ inv EXCEPT ![u].pc = HandlerAfter(@),
                           ![u].title = PageTitle(u),
                           ![u].ops = Append(@, "page.title") ]
    /\ UNCHANGED << mainPc, config, router, crawl, queue, origin, dataset,
                    handlerCalls, files, data, logged, reachable >>

\* (await context.page.content())[:100] (line 23) completes.
HandlerContent(u) ==
    /\ inv[u].pc = "content"
    /\ inv' = [ inv EXCEPT ![u].pc = HandlerAfter(@),
                           ![u].content = Slice(PageContent(u)),
                           ![u].ops = Append(@, "page.content") ]
    /\ UNCHANGED << mainPc, config, router, crawl, queue, origin, dataset,
                    handlerCalls, files, data, logged, reachable >>

\* await context.push_data(data) (line 27) completes; the handler returns.
HandlerPushData(u) ==
    /\ inv[u].pc = "push_data"
    /\ LET rec == BuildData(u, inv[u].title, inv[u].content)
       IN  /\ dataset' = Append(dataset, rec)
           /\ inv' = [ inv EXCEPT ![u].pc = HandlerAfter(@),
                                  ![u].pushed = Append(@, rec),
                                  ![u].ops = Append(@, "push_data") ]
    /\ UNCHANGED << mainPc, config, router, crawl, queue, origin,
                    handlerCalls, files, data, logged, reachable >>

\* enqueue_links, page.title or page.content raises (never on the page of a
\* reachable start URL).
HandlerRaise(u) ==
    /\ u \notin reachable
    /\ inv[u].pc \in { "enqueue_links", "title", "content" }
    /\ inv' = [ inv EXCEPT ![u].pc = OnFailure(@),
                           ![u].failed = inv[u].pc ]
    /\ UNCHANGED << mainPc, config, router, crawl, queue, origin, dataset,
                    handlerCalls, files, data, logged, reachable >>

\* ------------------------------------------------------ specification

Next ==
    \/ MainRegister
    \/ MainRun
    \/ RunReturn
    \/ MainExport
    \/ ExportReturn
    \/ MainGetData
    \/ GetDataReturn
    \/ MainLog
    \/ \E u \in Urls : StartTask(u)
    \/ \E u \in Urls : HandlerEnqueueLinks(u)
    \/ \E u \in Urls : HandlerTitle(u)
    \/ \E u \in Urls : HandlerContent(u)
    \/ \E u \in Urls : HandlerPushData(u)
    \/ \E u \in Urls : HandlerRaise(u)

Spec == Init /\ [][Next]_vars

\* The event loop runs every coroutine that can run, and every awaited
\* operation completes or raises.
FairSpec == Spec /\ WF_vars(Next)

\* ---------------------------------------------------------------- claims

\* Requests whose handler invocation has started.
Started == { u \in Urls : inv[u].pc # "idle" }

\* main() has called export_data (it is in the call or past it).
ExportStarted == mainPc \in { "in_export", "get_data", "in_get_data", "log", "done" }

\* main() has called get_data (it is in the call or past it).
GetDataStarted == mainPc \in { "in_get_data", "log", "done" }

\* The records of a sequence of records.
Records(ds) == { ds[k] : k \in 1..Len(ds) }

C2_OneCallOneRecord ==
    /\ handlerCalls = Cardinality(Started)
    /\ \A u \in Seen : (u \in Range(queue)) # (u \in Started)
    /\ \A u \in Urls : Len(inv[u].pushed) <= 1
    /\ Len(dataset) <= handlerCalls

\* C2 witness: five invocations are over, three of them pushed a record.
C2_Witness ==
    /\ handlerCalls = 5
    /\ Active = {}
    /\ Len(dataset) = 3

\* C3: export_data is called only after crawler.run has finished the crawl, no
\* handler invocation is in progress or starts after that, and get_data is
\* called only after export_data has written the file.
C3_SequentialMain ==
    /\ [](ExportStarted => crawl = "finished" /\ Active = {})
    /\ [](GetDataStarted => "results.json" \in DOMAIN files)
    /\ [][ExportStarted => handlerCalls' = handlerCalls /\ inv' = inv]_vars

\* C3 witness: main() is in get_data after a crawl of several pages.
C3_Witness ==
    /\ mainPc = "in_get_data"
    /\ handlerCalls >= 3
    /\ "results.json" \in DOMAIN files

\* C4: with the start URL reachable the script terminates, and at its end the
\* file results.json exists and get_data() returned a non-empty collection.
C4_TerminatesWithResults ==
    (Url(0) \in reachable)
        ~> ( /\ mainPc = "done"
             /\ "results.json" \in DOMAIN files
             /\ data # << >>
             /\ Len(data[1]) >= 1 )

\* C4 witness: main() has returned for a reachable start URL, with records read.
C4_Witness ==
    /\ Url(0) \in reachable
    /\ mainPc = "done"
    /\ "results.json" \in DOMAIN files
    /\ data # << >>
    /\ Len(data[1]) >= 2

\* C5: results.json holds exactly the records the handler invocations pushed,
\* export_data leaves the dataset as it was, and get_data() returns the
\* records that were exported.
C5_ExportsWholeDataset ==
    /\ mainPc \in { "get_data", "in_get_data", "log", "done" } =>
          /\ "results.json" \in DOMAIN files
          /\ files["results.json"].items = dataset
          /\ Records(dataset) = UNION { Records(inv[u].pushed) : u \in Urls }
          /\ Len(dataset) = Cardinality({ u \in Urls : inv[u].pushed # << >> })
    /\ mainPc \in { "log", "done" } =>
          data = << files["results.json"].items >>

\* C5 witness: get_data() has returned after an export of several records.
C5_Witness ==
    /\ mainPc = "log"
    /\ data # << >>
    /\ Len(data[1]) >= 3
    /\ Len(files["results.json"].items) >= 3

\* C6: within an invocation the operations happen in the order enqueue_links,
\* page.title, page.content, push_data: what an invocation has done so far is
\* always a prefix of that order.
C6_HandlerOrder ==
    LET order == << "log.info", "enqueue_links", "page.title", "page.content",
                    "push_data" >>
    IN  \A u \in Urls :
          /\ Len(inv[u].ops) <= Len(order)
          /\ inv[u].ops = SubSeq(order, 1, Len(inv[u].ops))

\* C6 witness: one invocation has pushed its record while another one is
\* between its title and its content.
C6_Witness ==
    \E u, v \in Urls :
        /\ inv[u].ops = << "log.info", "enqueue_links", "page.title",
                           "page.content", "push_data" >>
        /\ inv[v].pc = "content"

\* C7: a pushed record has exactly the fields url, title and content: the URL
\* of the invocation's request, the page's title, and the first
\* min(100, length) characters of the page's content.
C7_RecordShape ==
    \A u \in Urls : \A k \in 1..Len(inv[u].pushed) :
        LET rec == inv[u].pushed[k]
            n   == Len(PageContent(u))
        IN  /\ DOMAIN rec = { "url", "title", "content" }
            /\ rec.url = u
            /\ rec.title = PageTitle(u)
            /\ Len(rec.content) = (IF n < 100 THEN n ELSE 100)
            /\ Len(rec.content) <= 100
            /\ \A j \in 1..Len(rec.content) : rec.content[j] = PageContent(u)[j]

\* C7 witness: records were pushed for a page shorter than 100 characters and
\* for a page longer than 100 characters.
C7_Witness ==
    \E u, v \in Urls :
        /\ inv[u].pushed # << >> /\ Len(PageContent(u)) < 100
        /\ inv[v].pushed # << >> /\ Len(PageContent(v)) > 100
        /\ Len(inv[v].pushed[1].content) = 100

\* C8: the options given at construction stay as they were given through
\* handler registration, run, every invocation, export_data and get_data.
C8_ConfigFixed ==
    config = [ max_requests_per_crawl |-> 5, headless |-> FALSE,
               browser_type |-> "firefox" ]

\* C8 witness: main() has returned after a crawl, with the options as given.
C8_Witness ==
    /\ mainPc = "done"
    /\ handlerCalls >= 1
    /\ logged # << >>
    /\ config.browser_type = "firefox"

\* C9: an invocation in which enqueue_links, page.title or page.content raised
\* has ended with the error and has pushed nothing: the dataset holds no
\* record of it.
C9_FailurePushesNothing ==
    \A u \in Urls :
        inv[u].failed # "none" =>
            /\ inv[u].pc = "raised"
            /\ inv[u].pushed = << >>
            /\ "push_data" \notin Range(inv[u].ops)
            /\ \A r \in Records(dataset) : r.url # u

\* C9 witness: each of the three operations has raised in some invocation and
\* another invocation has pushed a record.
C9_Witness ==
    /\ \E u \in Urls : inv[u].failed = "enqueue_links"
    /\ \E u \in Urls : inv[u].failed = "title"
    /\ \E u \in Urls : inv[u].failed = "content"
    /\ dataset # << >>

\* C10: once crawler.run has returned the dataset holds at most 5 records, and
\* the url of each is the URL of a request processed in this run: the start
\* URL, or a link that an earlier invocation enqueued.
C10_DatasetAfterRun ==
    crawl = "finished" =>
        /\ Len(dataset) <= 5
        /\ \A r \in Records(dataset) :
              /\ r.url \in Started
              /\ r.url \in Seen
              /\ \/ r.url = Url(0) /\ origin[r.url] = RunOrigin
                 \/ /\ origin[r.url] \in Started
                    /\ r.url \in Range(PageLinks(origin[r.url]))
                    /\ "enqueue_links" \in Range(inv[origin[r.url]].ops)

\* C10 witness: the run is over with 5 records, one of them for a link.
C10_Witness ==
    /\ crawl = "finished"
    /\ Len(dataset) = 5
    /\ \E r \in Records(dataset) : r.url # Url(0)

====
